---- MODULE Spec2Model ----
(***************************************************************************)
(* Model of ai-powerbi-agent.py: one run of main() after another.  A run   *)
(* connects to the model server, documents the measures that carry no     *)
(* description, exports the model to the on-disk definition tree, creates  *)
(* a timestamped backup with a changelog and commits.                      *)
(*                                                                         *)
(* The model server, the reasoning service, the filesystem, the clock and  *)
(* git are the environment: each call returns or raises, the reasoning     *)
(* service answers with any text, the clock may or may not advance between *)
(* two steps.                                                              *)
(***************************************************************************)
EXTENDS Integers, Sequences, FiniteSets, TLC

\* ------------------------------------------------------------------ bounds
NumMeasures == 2
MaxRuns == 2
MaxClock == 1

Measures == 1..NumMeasures

\* --------------------------------------------------------------- entities
\* A measure as the model server holds it and as the definition tree stores it.
Undocumented ==
  [description |-> "", displayFolder |-> "", aiDocs |-> "", techNotes |-> ""]

HumanDocumented ==
  [description |-> "human", displayFolder |-> "", aiDocs |-> "", techNotes |-> ""]

\* The keys the two prompts ask for.
EntityKeys == {"description", "technical_notes", "issues", "display_folder"}

ChangeKeys == {"changelog", "impact", "commit_message"}

\* A response text with all the keys, or with one of them left out.
KeySets(all) == {all} \cup {all \ {k} : k \in all}

NoAnalysis == [parsed |-> FALSE, for |-> 0, expr |-> 0, keys |-> {}, description |-> ""]

\* What json.loads(response.content[0].text) yields for a measure: a dict with
\* some of the keys; the description it carries may be the empty string.
EntityResponses(name, expr) ==
  { [parsed |-> TRUE, for |-> name, expr |-> expr, keys |-> K, description |-> d] :
      K \in KeySets(EntityKeys), d \in {"", "gen"} }
  \ { r \in [parsed : {TRUE}, for : {name}, expr : {expr},
             keys : KeySets(EntityKeys), description : {"gen"}] :
        "description" \notin r.keys }

NoChangeAnalysis == [parsed |-> FALSE, run |-> 0, keys |-> {}]

ChangeResponses(r) ==
  { [parsed |-> TRUE, run |-> r, keys |-> K] : K \in KeySets(ChangeKeys) }

\* ----------------------------------------------------------------- git
\* The content of a commit (or of the index): the definition tree and the
\* backups directory, with the message it was committed with (0: none given,
\* -1: a commit made before the first run, r >= 1: the message derived in run r).
Content(def, bk, msg) == [def |-> def, bk |-> bk, msg |-> msg]

Changed(f, g) ==
  { x \in (DOMAIN f) \cup (DOMAIN g) :
      \/ x \notin DOMAIN f
      \/ x \notin DOMAIN g
      \/ f[x] # g[x] }

\* repo.git.diff('HEAD~1', 'HEAD'): the paths that differ between the two
\* last commits.  The empty diff is the empty string.
GitDiff(a, b) == [def |-> Changed(a.def, b.def), bk |-> Changed(a.bk, b.bk)]

EmptyDiff == [def |-> {}, bk |-> {}]

\* ------------------------------------------------------------- snapshots
\* A backup directory: the files under definition/ and CHANGELOG.md as the
\* sequence of its sections with the time in its header and the diff it quotes.
EmptyDir == [definition |-> <<>>, sections |-> <<>>, headerTime |-> -1,
             diff |-> EmptyDiff, run |-> 0]

\* shutil.copytree(src, dst, dirs_exist_ok=True): every file of src is written
\* to dst; a file dst already holds and src does not is left where it is.
CopyTree(src, dst) ==
  [x \in (DOMAIN src) \cup (DOMAIN dst) |-> IF x \in DOMAIN src THEN src[x] ELSE dst[x]]

\* The files of src below k (the copy stopped there).
Prefix(src, k) == [x \in {y \in DOMAIN src : y < k} |-> src[x]]

VARIABLES
  tree,                 \* Dataset.SemanticModel/definition on disk
  head, prev, index,    \* HEAD, HEAD~1 and the staging area
  backups,              \* backups/<timestamp>
  clock,                \* datetime.now(), to the second
  runNo,                \* which run of main() this is
  edited,               \* the tree was edited from outside since the last run
  prevRun,              \* how the last run went
  pc, err,              \* where main() is, and the exception that ended it
  session,              \* "none", "open" or "released"
  model,                \* the measures the server holds in memory
  measures, i,          \* the List result and the loop's position in it
  dax, ai_analysis,     \* locals of auto_document_measures
  documented_measures,
  request,              \* the last Update request sent
  printed,              \* the "Documented:" lines printed
  diff, analysis,       \* locals of create_backup_with_changelog
  backup_dir,
  commit_message,       \* main's local: 0 is None
  exported,             \* the files the export of this run changed
  log                   \* the calls this run issued, in order

vars == << tree, head, prev, index, backups, clock, runNo, edited, prevRun,
           pc, err, session, model, measures, i, dax, ai_analysis,
           documented_measures, request, printed, diff, analysis, backup_dir,
           commit_message, exported, log >>

repoVars == << tree, head, prev, index, backups >>
docVars == << measures, i, dax, ai_analysis, documented_measures, request, printed >>
backupVars == << diff, analysis, backup_dir >>

\* ----------------------------------------------------------------- helpers
RECURSIVE Ascending(_)
Ascending(S) ==
  IF S = {} THEN <<>>
  ELSE LET m == CHOOSE x \in S : \A y \in S : x <= y
       IN <<m>> \o Ascending(S \ {m})

\* The text of a List answer: every measure of the model with its description.
ListResult(mdl) ==
  LET names == Ascending(DOMAIN mdl)
  IN [k \in 1..Len(names) |->
        [name |-> names[k], tableName |-> "Measures", description |-> mdl[names[k]].description]]

Call(op, m, ok) == [op |-> op, m |-> m, ok |-> ok, open |-> session = "open"]

\* An exception that is swallowed: main goes on with the export.
RaiseSwallowed(e) == pc' = "export" /\ err' = e

\* Nothing catches an exception: it ends main().
Raise(e) == pc' = "failed" /\ err' = e

Ops(op) == { k \in 1..Len(log) : log[k].op = op }

InitialRunSummary == [returned |-> FALSE, exported |-> FALSE]

\* -------------------------------------------------------------------- Init
NoRequest == [tableName |-> "", measureName |-> 0, updateDefinition |-> Undocumented]

Init ==
  /\ tree \in [Measures -> {Undocumented, HumanDocumented}]
  /\ head = Content(tree, <<>>, -1)
  /\ \E gone \in SUBSET Measures :
       /\ Cardinality(gone) <= 1
       /\ prev = Content([m \in Measures \ gone |-> tree[m]], <<>>, -1)
  /\ index = head
  /\ backups = <<>>
  /\ clock = 0
  /\ runNo = 1
  /\ edited = FALSE
  /\ prevRun = InitialRunSummary
  /\ pc = "start"
  /\ err = ""
  /\ session = "none"
  /\ model = <<>>
  /\ measures = <<>>
  /\ i = 1
  /\ dax = 0
  /\ ai_analysis = NoAnalysis
  /\ documented_measures = <<>>
  /\ request = NoRequest
  /\ printed = 0
  /\ diff = EmptyDiff
  /\ analysis = NoChangeAnalysis
  /\ backup_dir = -1
  /\ commit_message = 0
  /\ exported = {}
  /\ log = <<>>

\* ------------------------------------------------------- connect_to_model
\* The session is created inside two `async with` blocks and returned from
\* inside them: leaving the blocks on return closes the session and the
\* server's pipes, so the caller receives a released session.
Connect ==
  /\ pc = "start"
  /\ \E ok \in BOOLEAN :
       /\ log' = Append(log, [op |-> "ConnectFolder", m |-> 0, ok |-> ok, open |-> TRUE])
       /\ IF ok
          THEN /\ model' = tree
               /\ pc' = "list"
               /\ err' = err
          ELSE /\ model' = model
               /\ Raise("ConnectFolder")
  /\ session' = "released"
  /\ UNCHANGED << repoVars, clock, runNo, edited, prevRun, docVars, backupVars,
                  commit_message, exported >>

\* ------------------------------------------------- auto_document_measures
List ==
  /\ pc = "list"
  /\ \E ok \in BOOLEAN :
       /\ log' = Append(log, Call("List", 0, ok))
       /\ IF ok
          THEN /\ measures' = ListResult(model)
               /\ documented_measures' = <<>>
               /\ i' = 1
               /\ pc' = "loop"
               /\ err' = err
          ELSE /\ UNCHANGED << measures, documented_measures, i >>
               /\ Raise("List")
  /\ UNCHANGED << repoVars, clock, runNo, edited, prevRun, session, model, dax,
                  ai_analysis, request, printed, backupVars, commit_message, exported >>

\* A filter that lets every measure through.
NeedsDocsAlways(measure) == TRUE

\* `if not measure.get('description')`: only a measure listed without a
\* description is documented.
NeedsDocs(measure) == measure.description = ""

\* A loop that stays on the measure it has handled.
NextIndexStuck(k) == k

\* `for measure in measures['data']['measures']`: each measure is visited once.
NextIndex(k) == k + 1

\* The head of the for loop: the next measure, or the return when there is none.
LoopNext ==
  /\ pc = "loop"
  /\ IF i > Len(measures)
     THEN /\ pc' = "export"
          /\ UNCHANGED i
     ELSE IF NeedsDocs(measures[i])
          THEN /\ pc' = "get"
               /\ UNCHANGED i
          ELSE /\ pc' = "loop"
               /\ i' = NextIndex(i)
  /\ UNCHANGED << repoVars, clock, runNo, edited, prevRun, err, session, model,
                  measures, dax, ai_analysis, documented_measures, request, printed,
                  backupVars, commit_message, exported, log >>

Get ==
  /\ pc = "get"
  /\ \E ok \in BOOLEAN :
       /\ log' = Append(log, Call("Get", measures[i].name, ok))
       /\ IF ok
          THEN /\ dax' = measures[i].name
               /\ pc' = "analyze"
               /\ err' = err
          ELSE /\ UNCHANGED dax
               /\ Raise("Get")
  /\ UNCHANGED << repoVars, clock, runNo, edited, prevRun, session, model,
                  measures, i, ai_analysis, documented_measures, request, printed,
                  backupVars, commit_message, exported >>

\* The loop goes on without the Update of the measure it analysed.
AfterAnalysisSkip == "loop"

\* The Update of a measure follows its analysis, and is awaited.
AfterAnalysis == "update"

\* analyze_measure_with_ai: one request; json.loads raises on a text that is
\* no JSON, and returns whatever dict the text holds otherwise.
AnalyzeMeasure ==
  /\ pc = "analyze"
  /\ \/ /\ log' = Append(log, Call("Analyze", measures[i].name, FALSE))
        /\ Raise("Analyze")
        /\ UNCHANGED ai_analysis
     \/ \E r \in EntityResponses(measures[i].name, dax) :
          /\ log' = Append(log, Call("Analyze", measures[i].name, TRUE))
          /\ ai_analysis' = r
          /\ pc' = AfterAnalysis
          /\ err' = err
  /\ UNCHANGED << repoVars, clock, runNo, edited, prevRun, session, model,
                  measures, i, dax, documented_measures, request, printed,
                  backupVars, commit_message, exported >>

\* The updateDefinition of the Update request.  ai_analysis['description'] and
\* ai_analysis['technical_notes'] raise KeyError when the key is missing;
\* ai_analysis.get('display_folder', '') does not.
CanBuildUpdate(a) == {"description", "technical_notes"} \subseteq a.keys

DisplayFolderOf(a) == IF "display_folder" \in a.keys THEN "folder" ELSE ""

UpdateDefinition(a) ==
  [description |-> a.description,
   displayFolder |-> DisplayFolderOf(a),
   aiDocs |-> "true",
   techNotes |-> "notes"]

\* A result that misses the measure just updated.
RecordDropped(docs, name) == docs

\* documented_measures.append({...}) after the Update has returned.
Record(docs, name) == Append(docs, name)

\* A request that names the first measure of the list, whichever is handled.
UpdateRequestFirst(measure, a) ==
  [tableName |-> measures[1].tableName,
   measureName |-> measures[1].name,
   updateDefinition |-> UpdateDefinition(a)]

\* The Update request: the measure of this iteration and the definition
\* built from the analysis of this iteration.
UpdateRequest(measure, a) ==
  [tableName |-> measure.tableName,
   measureName |-> measure.name,
   updateDefinition |-> UpdateDefinition(a)]

Update ==
  /\ pc = "update"
  /\ IF ~CanBuildUpdate(ai_analysis)
     THEN /\ Raise("KeyError:update")
          /\ UNCHANGED << model, documented_measures, request, printed, i, log >>
     ELSE \E ok \in BOOLEAN :
          LET req == UpdateRequest(measures[i], ai_analysis) IN
          /\ log' = Append(log, Call("Update", req.measureName, ok))
          /\ request' = req
          /\ IF ok
             THEN /\ model' = [model EXCEPT ![req.measureName] = req.updateDefinition]
                  /\ documented_measures' = Record(documented_measures, measures[i].name)
                  /\ printed' = printed + 1
                  /\ i' = NextIndex(i)
                  /\ pc' = "loop"
                  /\ err' = err
             ELSE /\ UNCHANGED << model, documented_measures, printed, i >>
                  /\ Raise("Update")
  /\ UNCHANGED << repoVars, clock, runNo, edited, prevRun, session, measures,
                  dax, ai_analysis, backupVars, commit_message, exported >>

\* ------------------------------------------------------------------ main
\* ExportToTmdlFolder writes the server's model over the definition tree.
Export ==
  /\ pc = "export"
  /\ \E ok \in BOOLEAN :
       /\ log' = Append(log, Call("Export", 0, ok))
       /\ IF ok
          THEN /\ tree' = model
               /\ exported' = Changed(tree, model)
               /\ pc' = "diff"
               /\ err' = err
          ELSE /\ UNCHANGED << tree, exported >>
               /\ Raise("Export")
  /\ UNCHANGED << head, prev, index, backups, clock, runNo, edited, prevRun,
                  session, model, docVars, backupVars, commit_message >>

\* ------------------------------------------- create_backup_with_changelog
\* The diff is taken between the two last commits; on an empty diff the
\* function prints and returns None.
\* A test that never takes the early return.
IsEmptyNever(d) == FALSE

\* `if not diff`
IsEmpty(d) == d = EmptyDiff

Diff ==
  /\ pc = "diff"
  /\ \/ /\ log' = Append(log, Call("Diff", 0, FALSE))
        /\ Raise("Diff")
        /\ UNCHANGED << diff, commit_message >>
     \/ /\ log' = Append(log, Call("Diff", 0, TRUE))
        /\ diff' = GitDiff(prev, head)
        /\ err' = err
        /\ IF IsEmpty(GitDiff(prev, head))
           THEN /\ commit_message' = 0
                /\ pc' = "add"
           ELSE /\ UNCHANGED commit_message
                /\ pc' = "analyze_changes"
  /\ UNCHANGED << repoVars, clock, runNo, edited, prevRun, session, model,
                  docVars, analysis, backup_dir, exported >>

\* analyze_tmdl_changes: as analyze_measure_with_ai, for the diff.
AnalyzeChanges ==
  /\ pc = "analyze_changes"
  /\ \/ /\ log' = Append(log, Call("AnalyzeChanges", 0, FALSE))
        /\ Raise("AnalyzeChanges")
        /\ UNCHANGED analysis
     \/ \E r \in ChangeResponses(runNo) :
          /\ log' = Append(log, Call("AnalyzeChanges", 0, TRUE))
          /\ analysis' = r
          /\ pc' = "mkdir"
          /\ err' = err
  /\ UNCHANGED << repoVars, clock, runNo, edited, prevRun, session, model,
                  docVars, diff, backup_dir, commit_message, exported >>

\* Path(f"backups/{datetime.now():%Y%m%d_%H%M%S}"): the directory is named by
\* the second the line runs in.
BackupDirName == clock

\* mkdir(parents=True, exist_ok=True): a directory of that name that exists
\* already is taken as it is.
MakeDir(dirs, d) ==
  IF d \in DOMAIN dirs THEN dirs ELSE [x \in (DOMAIN dirs) \cup {d} |->
                                          IF x = d THEN EmptyDir ELSE dirs[x]]

Mkdir ==
  /\ pc = "mkdir"
  /\ backup_dir' = BackupDirName
  /\ \E ok \in BOOLEAN :
       /\ log' = Append(log, Call("Mkdir", 0, ok))
       /\ IF ok
          THEN /\ backups' = MakeDir(backups, BackupDirName)
               /\ pc' = "copy"
               /\ err' = err
          ELSE /\ UNCHANGED backups
               /\ Raise("Mkdir")
  /\ UNCHANGED << tree, head, prev, index, clock, runNo, edited, prevRun,
                  session, model, docVars, diff, analysis, commit_message, exported >>

Copy ==
  /\ pc = "copy"
  /\ \/ /\ log' = Append(log, Call("Copy", 0, TRUE))
        /\ backups' = [backups EXCEPT ![backup_dir].definition = CopyTree(tree, @)]
        /\ pc' = "write"
        /\ err' = err
     \/ \E k \in Measures :
          /\ log' = Append(log, Call("Copy", 0, FALSE))
          /\ backups' = [backups EXCEPT ![backup_dir].definition = CopyTree(Prefix(tree, k), @)]
          /\ Raise("Copy")
  /\ UNCHANGED << tree, head, prev, index, clock, runNo, edited, prevRun,
                  session, model, docVars, backupVars, commit_message, exported >>

\* The changelog's sections in the order the f.write calls put them.
Sections == << "timestamp", "changelog", "impact", "diff" >>

\* How many sections are written before analysis[...] raises KeyError.
WritableSections(a) ==
  IF "changelog" \notin a.keys THEN 1
  ELSE IF "impact" \notin a.keys THEN 2
  ELSE Len(Sections)

\* f"# Model Backup - {datetime.now():%Y-%m-%d %H:%M:%S}": the header carries
\* the second the write runs in.
HeaderTime == clock

\* open(changelog_path, 'w') truncates the file; the writes follow in order.
ChangelogFile(dir, n) ==
  [dir EXCEPT !.sections = SubSeq(Sections, 1, n),
              !.headerTime = IF n >= 1 THEN HeaderTime ELSE -1,
              !.diff = IF n = Len(Sections) THEN diff ELSE EmptyDiff,
              !.run = runNo]

\* A message that does not come from the analysis.
DefaultMessage(a) == -1

\* `return analysis['commit_message']`: the message of this run's analysis.
ReturnedMessage(a) == a.run

\* The changelog write and the return of analysis['commit_message'].
WriteChangelog ==
  /\ pc = "write"
  /\ \/ /\ log' = Append(log, Call("Write", 0, FALSE))
        /\ \E n \in 0..(WritableSections(analysis) - 1) :
             backups' = [backups EXCEPT ![backup_dir] = ChangelogFile(@, n)]
        /\ Raise("Write")
        /\ UNCHANGED commit_message
     \/ /\ WritableSections(analysis) < Len(Sections)
        /\ log' = Append(log, Call("Write", 0, FALSE))
        /\ backups' = [backups EXCEPT ![backup_dir] =
                         ChangelogFile(@, WritableSections(analysis))]
        /\ Raise("KeyError")
        /\ UNCHANGED commit_message
     \/ /\ WritableSections(analysis) = Len(Sections)
        /\ log' = Append(log, Call("Write", 0, TRUE))
        /\ backups' = [backups EXCEPT ![backup_dir] = ChangelogFile(@, Len(Sections))]
        /\ IF "commit_message" \in analysis.keys
           THEN /\ commit_message' = ReturnedMessage(analysis)
                /\ pc' = "add"
                /\ err' = err
           ELSE /\ UNCHANGED commit_message
                /\ Raise("KeyError")
  /\ UNCHANGED << tree, head, prev, index, clock, runNo, edited, prevRun,
                  session, model, docVars, backupVars, exported >>

\* ------------------------------------------------------------ main, again
\* agent.repo.git.add('.') follows the backup without a test of its result.
Add ==
  /\ pc = "add"
  /\ \E ok \in BOOLEAN :
       /\ log' = Append(log, Call("Add", 0, ok))
       /\ IF ok
          THEN /\ index' = Content(tree, backups, 0)
               /\ pc' = "commit"
               /\ err' = err
          ELSE /\ UNCHANGED index
               /\ Raise("Add")
  /\ UNCHANGED << tree, head, prev, backups, clock, runNo, edited, prevRun,
                  session, model, docVars, backupVars, commit_message, exported >>

\* git commits when a message is given and the index differs from HEAD.
\* (GitPython drops a None argument: commit('-m', None) runs `git commit -m`,
\* which git rejects.)
CanCommit == commit_message # 0 /\ (index.def # head.def \/ index.bk # head.bk)

Commit ==
  /\ pc = "commit"
  /\ \/ /\ log' = Append(log, Call("Commit", 0, FALSE))
        /\ Raise("Commit")
        /\ UNCHANGED << head, prev >>
     \/ /\ CanCommit
        /\ log' = Append(log, Call("Commit", 0, TRUE))
        /\ prev' = head
        /\ head' = Content(index.def, index.bk, commit_message)
        /\ pc' = "done"
        /\ err' = err
  /\ UNCHANGED << tree, index, backups, clock, runNo, edited, prevRun,
                  session, model, docVars, backupVars, commit_message, exported >>

\* ------------------------------------------------------------ environment
\* The process has ended; the script is started again.
RunSummary ==
  [returned |-> Ops("Export") # {},
   exported |-> \E k \in Ops("Export") : log[k].ok]

NextRun ==
  /\ pc \in {"done", "failed"}
  /\ runNo < MaxRuns
  /\ runNo' = runNo + 1
  /\ prevRun' = RunSummary
  /\ edited' = FALSE
  /\ pc' = "start"
  /\ err' = ""
  /\ session' = "none"
  /\ model' = <<>>
  /\ measures' = <<>>
  /\ i' = 1
  /\ dax' = 0
  /\ ai_analysis' = NoAnalysis
  /\ documented_measures' = <<>>
  /\ request' = NoRequest
  /\ printed' = 0
  /\ diff' = EmptyDiff
  /\ analysis' = NoChangeAnalysis
  /\ backup_dir' = -1
  /\ commit_message' = 0
  /\ exported' = {}
  /\ log' = <<>>
  /\ UNCHANGED << repoVars, clock >>

\* Between two runs somebody edits the definition tree: a measure is removed,
\* or its description is cleared.
ExternalEdit ==
  /\ pc = "start"
  /\ ~edited
  /\ edited' = TRUE
  /\ \E m \in DOMAIN tree :
       \/ tree' = [x \in (DOMAIN tree) \ {m} |-> tree[x]]
       \/ /\ tree[m].description # ""
          /\ tree' = [tree EXCEPT ![m].description = ""]
  /\ UNCHANGED << head, prev, index, backups, clock, runNo, prevRun, pc, err,
                  session, model, docVars, backupVars, commit_message, exported, log >>

\* A second passes.
Tick ==
  /\ clock < MaxClock
  /\ clock' = clock + 1
  /\ UNCHANGED << repoVars, runNo, edited, prevRun, pc, err, session, model,
                  docVars, backupVars, commit_message, exported, log >>

Next ==
  \/ Connect
  \/ List
  \/ LoopNext
  \/ Get
  \/ AnalyzeMeasure
  \/ Update
  \/ Export
  \/ Diff
  \/ AnalyzeChanges
  \/ Mkdir
  \/ Copy
  \/ WriteChangelog
  \/ Add
  \/ Commit
  \/ NextRun
  \/ ExternalEdit
  \/ Tick

Spec == Init /\ [][Next]_vars

\* One run of main() from the initial state.
NextInRun ==
  \/ Connect
  \/ List
  \/ LoopNext
  \/ Get
  \/ AnalyzeMeasure
  \/ Update
  \/ Export
  \/ Diff
  \/ AnalyzeChanges
  \/ Mkdir
  \/ Copy
  \/ WriteChangelog
  \/ Add
  \/ Commit
  \/ ExternalEdit
  \/ Tick

RunSpec == Init /\ [][NextInRun]_vars

\* The steps of main(): each is a statement that runs, or a call that returns
\* or raises.
RunStep ==
  \/ Connect
  \/ List
  \/ LoopNext
  \/ Get
  \/ AnalyzeMeasure
  \/ Update
  \/ Export
  \/ Diff
  \/ AnalyzeChanges
  \/ Mkdir
  \/ Copy
  \/ WriteChangelog
  \/ Add
  \/ Commit

\* One run in which every call returns or raises in the end.
FairRunSpec == RunSpec /\ WF_vars(RunStep)

\* ================================================================= claims
EntityOps == {"Get", "Analyze", "Update"}

EntityErrors == {"Get", "Analyze", "Update", "KeyError:update"}

SessionOps == {"List", "Get", "Update", "Export"}

BackupOps == {"AnalyzeChanges", "Mkdir", "Copy", "Write"}

Issued(ops) == { k \in 1..Len(log) : log[k].op \in ops }

DiffTaken == \E k \in Ops("Diff") : log[k].ok

\* create_backup_with_changelog has returned a commit message in this run.
SnapshotReturned == commit_message # 0

\* C1: a failure of one measure's Get, analysis or Update is recorded and the
\* controller goes on: no exception of a per-measure step ends the run.
C1_PartialFailureIsolation ==
  (\E k \in Issued(EntityOps) : ~log[k].ok) => ~(pc = "failed" /\ err \in EntityErrors)

\* C2: stage-all and commit are invoked only in a run in which
\* create_backup_with_changelog returned a commit message.
C2_CommitGating ==
  Issued({"Add", "Commit"}) # {} => SnapshotReturned

\* C3: the session is open at every List, Get, Update and Export call.
C3_SessionOpenAtEveryCall ==
  \A k \in Issued(SessionOps) : log[k].open

\* C4: a run that follows a run whose documentation phase returned and whose
\* export was written, with no edit from outside in between, issues no Get,
\* no analysis and no Update.
C4_SecondRunIdle ==
  (runNo >= 2 /\ prevRun.returned /\ prevRun.exported /\ ~edited)
    => Issued(EntityOps) = {}

\* C5: when the run updated a measure and its export changed the definition
\* tree, the diff the run takes afterwards is not empty and holds the files
\* the export changed.
C5_DiffObservesOwnMutation ==
  (DiffTaken /\ documented_measures # <<>> /\ exported # {})
    => (diff # EmptyDiff /\ exported \subseteq diff.def)

\* C6: on an empty diff create_backup_with_changelog returns None and has
\* issued no change analysis, made no directory, copied no file and written
\* no changelog.
C6_EmptyDiffShortCircuit ==
  (DiffTaken /\ diff = EmptyDiff)
    => /\ Issued(BackupOps) = {}
       /\ commit_message = 0
       /\ backup_dir = -1
       /\ analysis = NoChangeAnalysis
       /\ backups = <<>>

C6_Witness ==
  DiffTaken /\ diff = EmptyDiff /\ pc = "add"

\* C7: every stage-all and every commit comes after a copy of the definition
\* tree and a changelog write that both succeeded in the same run.
C7_BackupBeforeCommit ==
  \A k \in Issued({"Add", "Commit"}) :
    /\ \E c \in Ops("Copy") : c < k /\ log[c].ok
    /\ \E w \in Ops("Write") : w < k /\ log[w].ok

\* C8: the directory a run makes for its backup did not exist before, so that
\* no run writes into the backup directory of an earlier run.
C8_SnapshotsUniqueImmutable ==
  [][(pc = "mkdir" /\ pc' = "copy") => backup_dir' \notin DOMAIN backups]_vars

\* C9: nothing is produced from an analysis result that lacks a required
\* key: an Update is issued only from a result with all four keys, and a
\* backup directory is made only for a change analysis with all three.
C9_ValidatedAtBoundary ==
  /\ (log # <<>> /\ log[Len(log)].op = "Update") => ai_analysis.keys = EntityKeys
  /\ Issued({"Mkdir"}) # {} => analysis.keys = ChangeKeys

\* C10: once create_backup_with_changelog has returned, the backup directory
\* holds exactly the files of the definition tree, with their contents, and a
\* changelog with the four sections in their order, quoting the diff.
C10_SnapshotComplete ==
  SnapshotReturned
    => /\ backups[backup_dir].definition = tree
       /\ backups[backup_dir].sections = Sections
       /\ backups[backup_dir].diff = diff

Listed(name) == { j \in 1..Len(measures) : measures[j].name = name }

\* C12: Get, analysis and Update are issued only for measures listed without
\* a description; a measure listed with one is left as it was loaded, in the
\* server's model and on disk.
C12_SelectiveFilter ==
  /\ \A k \in Issued(EntityOps) :
       \A j \in Listed(log[k].m) : measures[j].description = ""
  /\ \A j \in 1..Len(measures) :
       measures[j].description # ""
         => /\ model[measures[j].name] = head.def[measures[j].name]
            /\ tree[measures[j].name] = head.def[measures[j].name]
            /\ measures[j].name \notin exported

C12_Witness ==
  /\ pc = "diff"
  /\ \E j \in 1..Len(measures) : measures[j].description # ""
  /\ \E k \in Ops("Update") : log[k].ok
  /\ exported # {}

\* C13: the calls for the measures come one triplet after the other: an
\* analysis follows the successful Get of its measure, an Update follows the
\* successful analysis of its measure, and a Get follows the List or the
\* completed Update of an earlier measure.  (Every call is awaited before the
\* next statement runs, so no two calls are outstanding at once.)
C13_StrictSequencing ==
  \A k \in Issued(EntityOps) :
    /\ k > 1
    /\ log[k].op = "Get"
         => \/ log[k-1].op = "List" /\ log[k-1].ok
            \/ log[k-1].op = "Update" /\ log[k-1].ok /\ log[k-1].m < log[k].m
    /\ log[k].op = "Analyze"
         => log[k-1].op = "Get" /\ log[k-1].ok /\ log[k-1].m = log[k].m
    /\ log[k].op = "Update"
         => log[k-1].op = "Analyze" /\ log[k-1].ok /\ log[k-1].m = log[k].m

C13_Witness ==
  /\ Cardinality(Ops("Update")) = 2
  /\ \A k \in Ops("Update") : log[k].ok

\* C14: within a run no call is issued twice: each measure gets at most one
\* Get, one analysis and one Update, the run at most one List, export, diff,
\* change analysis, mkdir, copy, changelog write, stage and commit; a call
\* that failed is the last call of the run.
C14_AtMostOnceNoRetry ==
  /\ \A k1, k2 \in 1..Len(log) :
       (log[k1].op = log[k2].op /\ log[k1].m = log[k2].m) => k1 = k2
  /\ \A k \in 1..Len(log) : ~log[k].ok => k = Len(log)
  /\ \A j1, j2 \in 1..Len(measures) :
       measures[j1].name = measures[j2].name => j1 = j2

C14_Witness ==
  /\ pc = "done"
  /\ Cardinality(Ops("Update")) = NumMeasures
  /\ Cardinality(Ops("Export")) = 1
  /\ Cardinality(Ops("AnalyzeChanges")) = 1
  /\ Cardinality(Ops("Commit")) = 1

\* The measures whose Update returned in this run, in the order of the calls.
UpdatedInOrder ==
  LET done == SelectSeq(log, LAMBDA e : e.op = "Update" /\ e.ok)
  IN [k \in 1..Len(done) |-> done[k].m]

\* C15: the accumulated result is the sequence of the measures whose Update
\* returned in this run, in processing order, one printed line for each; a
\* measure whose Get, analysis or Update failed is not in it.
C15_ResultMatchesUpdates ==
  /\ documented_measures = UpdatedInOrder
  /\ printed = Len(documented_measures)
  /\ \A k \in Issued(EntityOps) :
       ~log[k].ok => \A j \in 1..Len(documented_measures) :
                       documented_measures[j] # log[k].m

C15_Witness ==
  /\ pc = "failed"
  /\ err = "Update"
  /\ Len(documented_measures) = 1
  /\ printed = 1

Terminal == pc \in {"done", "failed"}

\* The calls a run can issue: the connect, the List, three per listed
\* measure, and one each of export, diff, change analysis, mkdir, copy,
\* changelog write, stage and commit.
MaxCalls == 2 + 3 * Len(measures) + 8

\* C17: when every call returns or raises, a run ends, complete or failed
\* with the exception that ended it; until then a step of it can be taken,
\* and it never issues more calls than one per phase and three per measure.
C17_Termination ==
  /\ <>Terminal
  /\ [](~Terminal => ENABLED RunStep)
  /\ [](Len(log) <= MaxCalls /\ Cardinality(Ops("List")) <= 1)
  /\ [](pc = "failed" <=> err # "")

C17_Witness ==
  pc = "done" /\ Len(log) = MaxCalls /\ Len(measures) = NumMeasures

\* C18: the time in the changelog's header is the time that names the backup
\* directory.
C18_TimestampConsistency ==
  \A d \in DOMAIN backups :
    backups[d].sections # <<>> => backups[d].headerTime = d

\* An exception was raised while a measure was being processed.
AbortedInLoop ==
  \/ \E k \in Issued(EntityOps) : ~log[k].ok
  \/ err = "KeyError:update"

\* C19: when an exception is raised while a measure is processed, the run
\* has ended there: the Updates applied before it are in the server's model
\* and not on disk, there is no export, no diff, no change analysis, no
\* backup, no stage and no commit, and the result was not returned.
C19_AbortLeavesUpdatesUnaudited ==
  AbortedInLoop
    => /\ pc = "failed"
       /\ Issued({"Export", "Diff", "Add", "Commit"} \cup BackupOps) = {}
       /\ \A j \in 1..Len(documented_measures) :
            /\ model[documented_measures[j]].aiDocs = "true"
            /\ tree[documented_measures[j]].aiDocs = ""
       /\ exported = {}
       /\ backups = <<>>
       /\ head.msg = -1
       /\ commit_message = 0

C19_Witness ==
  /\ pc = "failed"
  /\ err = "Get"
  /\ Len(documented_measures) = 1
  /\ model[documented_measures[1]].description = "gen"
====
